---- MODULE Spec2Model ----
(***************************************************************************)
(* Model of compression_analyzer.py: the run() driver (checkpoint resume,  *)
(* training loop, tree wrapping, profiling forward pass over the test set, *)
(* profile extraction), the test() bandwidth accumulation and the          *)
(* recursive extract_compression_rates traversal.  The wrapper class and   *)
(* the wrapping pass live in utils/module_wrap_util.py, which is not part  *)
(* of the analysed file; they are modelled from the design document.       *)
(***************************************************************************)
EXTENDS Integers, Sequences, FiniteSets, TLC

\* ---------------------------------------------------------------- bounds
MaxNodes == 5       \* nodes of a model tree in the profiling specification
RunNodes == 3       \* nodes of a model tree in the run() specification
MaxEpoch == 2       \* largest value of args.epoch
MaxBatches == 2     \* batches a data loader supplies in run()
MaxBatchSize == 2   \* samples in one batch
MaxTestBatches == 3 \* batches a data loader supplies to test() alone

VARIABLES pc, args, ckpt, model, model0, params, epoch, start_epoch, best_acc,
          calls, error, test_loader, batch_idx, bandwidth, total, avg_input_bandwidth,
          org_bandwidth_list, compressed_bandwidth_list, name_list, io_log

vars == <<pc, args, ckpt, model, model0, params, epoch, start_epoch, best_acc,
          calls, error, test_loader, batch_idx, bandwidth, total, avg_input_bandwidth,
          org_bandwidth_list, compressed_bandwidth_list, name_list, io_log>>

\* ------------------------------------------------------------- rationals
\* Python's "/" on two ints is a true division; a quotient is kept as the
\* pair numerator/denominator and compared by cross multiplication.
Rat(n, d) == [num |-> n, den |-> d]

RatEq(a, b) == a.num * b.den = b.num * a.den

NoValue == Rat(0, 0)

RECURSIVE SetToSortedSeq(_)
SetToSortedSeq(S) ==
    IF S = {} THEN <<>>
    ELSE LET x == CHOOSE y \in S : \A z \in S : y <= z
         IN <<x>> \o SetToSortedSeq(S \ {x})

\* ------------------------------------------------------------ model tree
\* module_util.get_model builds an ordered tree of named modules.  Node 1 is
\* the root; a module with children is a container, one without is a layer.
LayerTypes == <<"Conv2d", "ReLU", "Linear", "BatchNorm2d", "MaxPool2d", "Dropout", "Softmax">>

LayerType(i) == LayerTypes[((i - 1) % Len(LayerTypes)) + 1]

\* bytes of one sample entering / leaving layer i
LayerInBytes(i) == 500 * i

LayerOutBytes(i) == 125 * i

Recorder0 == [bytes |-> 0, count |-> 0]

ParentFns(n) == {p \in [2..n -> 1..n] : \A i \in 2..n : p[i] < i}

ChildIds(n, p, i) == SetToSortedSeq({j \in 2..n : p[j] = i})

LeavesOf(n, p) == {i \in 2..n : \A j \in 2..n : p[j] # i}

GetModel(n, p, U) ==
    [i \in 1..n |->
        LET kids == ChildIds(n, p, i)
        IN [wrapper |-> FALSE,
            type |-> IF kids = <<>> /\ i # 1 THEN LayerType(i) ELSE "Sequential",
            children |-> [k \in 1..Len(kids) |->
                             [name |-> ToString(kids[k]), module |-> kids[k]]],
            org_module |-> 0,
            org |-> Recorder0,
            compressed |-> Recorder0,
            used |-> i \in U]]

Models(maxn) ==
    UNION {UNION {{GetModel(n, p, U) : U \in SUBSET LeavesOf(n, p)} : p \in ParentFns(n)} :
           n \in 1..maxn}

\* --------------------------------------------------- wrapper (recorders)
Record(r, byte_count) == [bytes |-> r.bytes + byte_count, count |-> r.count + 1]

Average(r) ==
    IF r.count = 0 THEN [ok |-> FALSE, val |-> NoValue]
    ELSE [ok |-> TRUE, val |-> Rat(r.bytes, r.count)]

WrapperModule(org_id) ==
    [wrapper |-> TRUE,
     type |-> "WrapperModule",
     children |-> <<[name |-> "org_module", module |-> org_id]>>,
     org_module |-> org_id,
     org |-> Recorder0,
     compressed |-> Recorder0,
     used |-> FALSE]

Forward(w, in_bytes, out_bytes) ==
    [w EXCEPT !.org = Record(@, in_bytes), !.compressed = Record(@, out_bytes)]

GetAverageOrgBandwidth(w) == Average(w.org)

GetAverageCompressedBandwidth(w) == Average(w.compressed)

\* ----------------------------------------------------- tree wrapping pass
NewId(m) == (CHOOSE x \in DOMAIN m : \A y \in DOMAIN m : y <= x) + 1

RECURSIVE WrapAllChildModules(_, _), WrapLoop(_, _, _)
WrapLoop(m, parent, k) ==
    IF k > Len(m[parent].children) THEN m
    ELSE LET child == m[parent].children[k].module
             w == NewId(m)
             next == IF m[child].wrapper THEN m
                     ELSE IF m[child].children # <<>> THEN WrapAllChildModules(m, child)
                     ELSE [m EXCEPT ![parent].children[k].module = w]
                          @@ (w :> WrapperModule(child))
         IN WrapLoop(next, parent, k + 1)

WrapAllChildModules(m, parent) == WrapLoop(m, parent, 1)

\* ------------------------------------------------ profile extraction pass
EmptyProfile == [org |-> <<>>, compressed |-> <<>>, names |-> <<>>, error |-> "none"]

\* variant: the name is taken from the wrapper instead of the wrapped node
AppendLeafWrapperName(m, child, acc) ==
    IF ~m[child].wrapper THEN [acc EXCEPT !.error = "AttributeError"]
    ELSE LET o == GetAverageOrgBandwidth(m[child])
             c == GetAverageCompressedBandwidth(m[child])
         IN IF ~o.ok \/ ~c.ok THEN [acc EXCEPT !.error = "NoSamplesError"]
            ELSE [org |-> Append(acc.org, o.val),
                  compressed |-> Append(acc.compressed, c.val),
                  names |-> Append(acc.names, m[child].type),
                  error |-> "none"]

\* variant: an unmeasured child is reported as 0 instead of raising
AppendLeafPlaceholder(m, child, acc) ==
    IF ~m[child].wrapper THEN [acc EXCEPT !.error = "AttributeError"]
    ELSE LET o == GetAverageOrgBandwidth(m[child])
             c == GetAverageCompressedBandwidth(m[child])
         IN [org |-> Append(acc.org, IF o.ok THEN o.val ELSE Rat(0, 1)),
             compressed |-> Append(acc.compressed, IF c.ok THEN c.val ELSE Rat(0, 1)),
             names |-> Append(acc.names, m[m[child].org_module].type),
             error |-> "none"]

\* variant: the two averages are appended to each other's list
AppendLeafSwapped(m, child, acc) ==
    IF ~m[child].wrapper THEN [acc EXCEPT !.error = "AttributeError"]
    ELSE LET o == GetAverageOrgBandwidth(m[child])
             c == GetAverageCompressedBandwidth(m[child])
         IN IF ~o.ok \/ ~c.ok THEN [acc EXCEPT !.error = "NoSamplesError"]
            ELSE [org |-> Append(acc.org, c.val),
                  compressed |-> Append(acc.compressed, o.val),
                  names |-> Append(acc.names, m[m[child].org_module].type),
                  error |-> "none"]

\* lines 132-134: the three appends for one measured child
AppendLeaf(m, child, acc) ==
    IF ~m[child].wrapper THEN [acc EXCEPT !.error = "AttributeError"]
    ELSE LET o == GetAverageOrgBandwidth(m[child])
             c == GetAverageCompressedBandwidth(m[child])
         IN IF ~o.ok THEN [acc EXCEPT !.error = "NoSamplesError"]
            ELSE IF ~c.ok
                 THEN [acc EXCEPT !.org = Append(@, o.val), !.error = "NoSamplesError"]
                 ELSE [org |-> Append(acc.org, o.val),
                       compressed |-> Append(acc.compressed, c.val),
                       names |-> Append(acc.names, m[m[child].org_module].type),
                       error |-> "none"]

RECURSIVE ExtractCompressionRates(_, _, _), ExtractLoop(_, _, _, _)
RECURSIVE ExtractLoopReversed(_, _, _, _)
\* variant: the children are visited from the last declared to the first
ExtractLoopReversed(m, parent, k, acc) ==
    IF acc.error # "none" \/ k > Len(m[parent].children) THEN acc
    ELSE LET child == m[parent].children[Len(m[parent].children) + 1 - k].module
             next == IF m[child].children # <<>> /\ ~m[child].wrapper
                     THEN ExtractLoopReversed(m, child, 1, acc)
                     ELSE AppendLeaf(m, child, acc)
         IN ExtractLoopReversed(m, parent, k + 1, next)

\* lines 128-134: the loop over named_children(), from the k-th child on
ExtractLoop(m, parent, k, acc) ==
    IF acc.error # "none" \/ k > Len(m[parent].children) THEN acc
    ELSE LET child == m[parent].children[k].module
             next == IF m[child].children # <<>> /\ ~m[child].wrapper
                     THEN ExtractCompressionRates(m, child, acc)
                     ELSE AppendLeaf(m, child, acc)
         IN ExtractLoop(m, parent, k + 1, next)

\* variant: a node without children is itself taken for a measured leaf
ExtractChildlessAsLeaf(m, parent, acc) ==
    IF m[parent].children = <<>> THEN AppendLeaf(m, parent, acc)
    ELSE ExtractLoop(m, parent, 1, acc)

ExtractCompressionRates(m, parent, acc) == ExtractLoop(m, parent, 1, acc)

\* ------------------------------------------------------- forward passes
\* model(inputs): every wrapper whose layer the model's forward routes data
\* through is invoked once with the batch.
Wrappers(m) == {w \in DOMAIN m : m[w].wrapper}

Invoked(m) == {w \in Wrappers(m) : m[m[w].org_module].used}

ModelForward(m, batch) ==
    [i \in DOMAIN m |->
        IF i \in Invoked(m)
        THEN Forward(m[i], batch.n * LayerInBytes(m[i].org_module),
                           batch.n * LayerOutBytes(m[i].org_module))
        ELSE m[i]]

ForwardLog(m, batch) ==
    LET ws == SetToSortedSeq(Invoked(m))
    IN [k \in 1..Len(ws) |->
           [w |-> ws[k], in |-> batch.n * LayerInBytes(m[ws[k]].org_module),
            out |-> batch.n * LayerOutBytes(m[ws[k]].org_module)]]

\* ------------------------------------------------------------ data loader
SampleBytes == 3000

RECURSIVE SeqsUpTo(_, _)
SeqsUpTo(S, n) ==
    IF n = 0 THEN {<<>>}
    ELSE LET shorter == SeqsUpTo(S, n - 1)
         IN shorter \cup {Append(q, x) : q \in shorter, x \in S}

Batches == {[nbytes |-> n * SampleBytes, n |-> n] : n \in 1..MaxBatchSize}

ByteSizes == {0, 3000, 5000}

TestBatches == {[nbytes |-> b, n |-> n] : b \in ByteSizes, n \in 0..MaxBatchSize}

\* ------------------------------------------------------------ checkpoint
CkptAccs == {50}

Ckpts == {[exists |-> FALSE, acc |-> 0, epoch |-> 0]}
         \cup {[exists |-> TRUE, acc |-> a, epoch |-> e] : a \in CkptAccs, e \in 1..MaxEpoch}

ArgSets == [evaluate : BOOLEAN, init : BOOLEAN, epoch : 0..MaxEpoch]

\* variant: the checkpoint branch never loads the stored parameters
ResumeFromCkptNoLoad(a, c) ==
    IF a.init \/ ~c.exists
    THEN [load |-> FALSE, best_acc |-> 0, start_epoch |-> 1]
    ELSE [load |-> FALSE, best_acc |-> c.acc, start_epoch |-> c.epoch]

ResumeFromCkpt(a, c) ==
    IF a.init \/ ~c.exists
    THEN [load |-> FALSE, best_acc |-> 0, start_epoch |-> 1]
    ELSE [load |-> TRUE, best_acc |-> c.acc, start_epoch |-> c.epoch]

\* test(model, test_loader, device, data_type='Test') takes at most four
\* positional arguments; validate passes five.
TestMaxPositional == 4

ValidateTestArgs == 5

ValidationAccs == {0, 50, 100}

\* ----------------------------------------------------------------- state
InitWith(m, a, c, loader, pc0) ==
    /\ pc = pc0
    /\ args = a
    /\ ckpt = c
    /\ model = m
    /\ model0 = m
    /\ params = "initial"
    /\ epoch = 0
    /\ start_epoch = 0
    /\ best_acc = 0
    /\ calls = <<>>
    /\ error = "none"
    /\ test_loader = loader
    /\ batch_idx = 0
    /\ bandwidth = 0
    /\ total = 0
    /\ avg_input_bandwidth = NoValue
    /\ org_bandwidth_list = <<>>
    /\ compressed_bandwidth_list = <<>>
    /\ name_list = <<>>
    /\ io_log = <<>>

\* run(), lines 153-165: configuration, data loaders and model are built
Init ==
    \E m \in Models(RunNodes), a \in ArgSets, c \in Ckpts,
       loader \in SeqsUpTo(Batches, MaxBatches) :
        InitWith(m, a, c, loader, "resume")

\* run -evaluate on a fresh model: the profiling path alone
InitProfile ==
    \E m \in Models(MaxNodes), loader \in SeqsUpTo(Batches, MaxBatches) :
        InitWith(m, [evaluate |-> TRUE, init |-> TRUE, epoch |-> 0],
                 [exists |-> FALSE, acc |-> 0, epoch |-> 0], loader, "resume")

\* test() called on its own with an arbitrary finite loader
InitTest ==
    \E loader \in SeqsUpTo(TestBatches, MaxTestBatches) :
        InitWith(GetModel(1, <<>>, {}), [evaluate |-> TRUE, init |-> TRUE, epoch |-> 0],
                 [exists |-> FALSE, acc |-> 0, epoch |-> 0], loader, "test")

\* lines 166-167
RunResume ==
    /\ pc = "resume"
    /\ LET r == ResumeFromCkpt(args, ckpt)
       IN /\ params' = IF r.load THEN "checkpoint" ELSE params
          /\ calls' = calls \o (IF r.load THEN <<"load_state_dict">> ELSE <<>>)
                            \o <<"resume_from_ckpt">>
          /\ best_acc' = r.best_acc
          /\ start_epoch' = r.start_epoch
          /\ epoch' = r.start_epoch
    /\ pc' = "loop"
    /\ UNCHANGED <<args, ckpt, model, model0, error, test_loader, batch_idx, bandwidth,
                   total, avg_input_bandwidth, org_bandwidth_list,
                   compressed_bandwidth_list, name_list, io_log>>

\* lines 168-169: the evaluate test and the range() bound
RunLoop ==
    /\ pc = "loop"
    /\ pc' = IF ~args.evaluate /\ epoch < start_epoch + args.epoch THEN "train" ELSE "wrap"
    /\ UNCHANGED <<args, ckpt, model, model0, params, epoch, start_epoch, best_acc, calls,
                   error, test_loader, batch_idx, bandwidth, total, avg_input_bandwidth,
                   org_bandwidth_list, compressed_bandwidth_list, name_list, io_log>>

\* line 170
RunTrain ==
    /\ pc = "train"
    /\ params' = "trained"
    /\ calls' = Append(calls, "train")
    /\ pc' = "validate"
    /\ UNCHANGED <<args, ckpt, model, model0, epoch, start_epoch, best_acc, error,
                   test_loader, batch_idx, bandwidth, total, avg_input_bandwidth,
                   org_bandwidth_list, compressed_bandwidth_list, name_list, io_log>>

\* line 171 with validate(), lines 119-124
RunValidate ==
    /\ pc = "validate"
    /\ calls' = Append(calls, "validate")
    /\ IF ValidateTestArgs > TestMaxPositional
       THEN /\ error' = "TypeError"
            /\ pc' = "raised"
            /\ UNCHANGED <<best_acc, ckpt, epoch>>
       ELSE \E acc \in ValidationAccs :
            /\ best_acc' = IF acc > best_acc THEN acc ELSE best_acc
            /\ ckpt' = IF acc > best_acc
                       THEN [exists |-> TRUE, acc |-> acc, epoch |-> epoch]
                       ELSE ckpt
            /\ epoch' = epoch + 1
            /\ pc' = "loop"
            /\ UNCHANGED error
    /\ UNCHANGED <<args, model, model0, params, start_epoch, test_loader, batch_idx,
                   bandwidth, total, avg_input_bandwidth, org_bandwidth_list,
                   compressed_bandwidth_list, name_list, io_log>>

\* variant: the pass runs on a copy and the model keeps its unwrapped tree
RunWrapOnCopy ==
    /\ pc = "wrap"
    /\ calls' = Append(calls, "wrap_all_child_modules")
    /\ pc' = "test"
    /\ UNCHANGED <<args, ckpt, model, model0, params, epoch, start_epoch, best_acc, error,
                   test_loader, batch_idx, bandwidth, total, avg_input_bandwidth,
                   org_bandwidth_list, compressed_bandwidth_list, name_list, io_log>>

\* line 172
RunWrap ==
    /\ pc = "wrap"
    /\ model' = WrapAllChildModules(model, 1)
    /\ calls' = Append(calls, "wrap_all_child_modules")
    /\ pc' = "test"
    /\ UNCHANGED <<args, ckpt, model0, params, epoch, start_epoch, best_acc, error,
                   test_loader, batch_idx, bandwidth, total, avg_input_bandwidth,
                   org_bandwidth_list, compressed_bandwidth_list, name_list, io_log>>

\* variant: total counts batches instead of samples
TestBatchCountsBatches ==
    /\ pc = "test"
    /\ batch_idx < Len(test_loader)
    /\ LET batch == test_loader[batch_idx + 1]
       IN /\ bandwidth' = bandwidth + batch.nbytes
          /\ model' = ModelForward(model, batch)
          /\ io_log' = io_log \o ForwardLog(model, batch)
          /\ total' = total + 1
    /\ batch_idx' = batch_idx + 1
    /\ calls' = Append(calls, "forward")
    /\ UNCHANGED <<pc, args, ckpt, model0, params, epoch, start_epoch, best_acc, error,
                   test_loader, avg_input_bandwidth, org_bandwidth_list,
                   compressed_bandwidth_list, name_list>>

\* test(), lines 106-112: one iteration of the loop over the loader
TestBatch ==
    /\ pc = "test"
    /\ batch_idx < Len(test_loader)
    /\ LET batch == test_loader[batch_idx + 1]
       IN /\ bandwidth' = bandwidth + batch.nbytes
          /\ model' = ModelForward(model, batch)
          /\ io_log' = io_log \o ForwardLog(model, batch)
          /\ total' = total + batch.n
    /\ batch_idx' = batch_idx + 1
    /\ calls' = Append(calls, "forward")
    /\ UNCHANGED <<pc, args, ckpt, model0, params, epoch, start_epoch, best_acc, error,
                   test_loader, avg_input_bandwidth, org_bandwidth_list,
                   compressed_bandwidth_list, name_list>>

\* test(), lines 114-116: the loader is exhausted
TestReturn ==
    /\ pc = "test"
    /\ batch_idx = Len(test_loader)
    /\ IF total = 0
       THEN /\ error' = "ZeroDivisionError"
            /\ pc' = "raised"
            /\ UNCHANGED <<avg_input_bandwidth, calls>>
       ELSE /\ avg_input_bandwidth' = Rat(bandwidth, total)
            /\ calls' = Append(calls, "test_return")
            /\ pc' = "plot"
            /\ UNCHANGED error
    /\ UNCHANGED <<args, ckpt, model, model0, params, epoch, start_epoch, best_acc,
                   test_loader, batch_idx, bandwidth, total, org_bandwidth_list,
                   compressed_bandwidth_list, name_list, io_log>>

\* line 174 with plot_compression_rates(), lines 138-141
RunPlot ==
    /\ pc = "plot"
    /\ LET r == ExtractCompressionRates(model, 1, EmptyProfile)
       IN /\ org_bandwidth_list' = r.org
          /\ compressed_bandwidth_list' = r.compressed
          /\ name_list' = r.names
          /\ error' = r.error
          /\ pc' = IF r.error = "none" THEN "done" ELSE "raised"
    /\ calls' = Append(calls, "extract_compression_rates")
    /\ UNCHANGED <<args, ckpt, model, model0, params, epoch, start_epoch, best_acc,
                   test_loader, batch_idx, bandwidth, total, avg_input_bandwidth, io_log>>

Next ==
    \/ RunResume
    \/ RunLoop
    \/ RunTrain
    \/ RunValidate
    \/ RunWrap
    \/ TestBatch
    \/ TestReturn
    \/ RunPlot

Spec == Init /\ [][Next]_vars

NextProfile ==
    \/ RunResume
    \/ RunLoop
    \/ RunWrap
    \/ TestBatch
    \/ TestReturn
    \/ RunPlot

SpecProfile == InitProfile /\ [][NextProfile]_vars

NextTest ==
    \/ TestBatch
    \/ TestReturn

SpecTest == InitTest /\ [][NextTest]_vars

TypeOK ==
    /\ pc \in {"resume", "loop", "train", "validate", "wrap", "test", "plot", "done", "raised"}
    /\ error \in {"none", "TypeError", "ZeroDivisionError", "NoSamplesError", "AttributeError"}
    /\ (pc = "raised") = (error # "none")

\* ------------------------------------------------- reference definitions
\* Independent descriptions of the tree, used to state the properties.
RECURSIVE SeqSum(_)
SeqSum(q) == IF q = <<>> THEN 0 ELSE Head(q) + SeqSum(Tail(q))

CountOf(e) == Cardinality({i \in 1..Len(calls) : calls[i] = e})

Before(a, b) ==
    \A i \in 1..Len(calls) : calls[i] = b => \E j \in 1..(i - 1) : calls[j] = a

Terminated == pc \in {"done", "raised"}

Wrapped == CountOf("wrap_all_child_modules") > 0

Extracted == CountOf("extract_compression_rates") > 0

ParentOf(m, n) ==
    CHOOSE q \in DOMAIN m : \E k \in 1..Len(m[q].children) : m[q].children[k].module = n

IndexIn(m, q, n) ==
    CHOOSE k \in 1..Len(m[q].children) : m[q].children[k].module = n

RECURSIVE PathOf(_, _)
PathOf(m, n) ==
    IF n = 1 THEN <<>>
    ELSE Append(PathOf(m, ParentOf(m, n)), IndexIn(m, ParentOf(m, n), n))

RECURSIVE ThroughContainers(_, _)
ThroughContainers(m, n) ==
    \/ n = 1
    \/ /\ ~m[ParentOf(m, n)].wrapper
       /\ ThroughContainers(m, ParentOf(m, n))

\* wrappers reachable from the root through non-wrapper containers
MeasuredLeaves(m) == {w \in Wrappers(m) : ThroughContainers(m, w)}

RECURSIVE LexLess(_, _)
LexLess(a, b) ==
    IF b = <<>> THEN FALSE
    ELSE IF a = <<>> THEN TRUE
    ELSE IF Head(a) # Head(b) THEN Head(a) < Head(b)
    ELSE LexLess(Tail(a), Tail(b))

\* position of a measured leaf in the pre-order listing of the tree
Rank(m, w) ==
    1 + Cardinality({v \in MeasuredLeaves(m) : LexLess(PathOf(m, v), PathOf(m, w))})

PreOrderNames(m) ==
    [k \in 1..Cardinality(MeasuredLeaves(m)) |->
        LET w == CHOOSE v \in MeasuredLeaves(m) : Rank(m, v) = k
        IN m[m[w].org_module].type]

InputsOf(w) ==
    LET q == SelectSeq(io_log, LAMBDA e : e.w = w) IN [k \in 1..Len(q) |-> q[k].in]

OutputsOf(w) ==
    LET q == SelectSeq(io_log, LAMBDA e : e.w = w) IN [k \in 1..Len(q) |-> q[k].out]

\* the tree [X, Y, Z] with Y a container of the single layer W
IsXYZTree ==
    /\ DOMAIN model0 = 1..5
    /\ Len(model0[1].children) = 3
    /\ [k \in 1..3 |-> model0[1].children[k].module] = <<2, 3, 4>>
    /\ Len(model0[3].children) = 1
    /\ model0[3].children[1].module = 5

\* ------------------------------------------------------------ properties

\* C1: the extracted name sequence is the pre-order listing (children in
\* declared order) of the wrapped leaves; a container adds no entry of its
\* own, so children [X, Y, Z] with Y holding the one leaf W give [X, W, Z].
C1_PreOrderNames ==
    pc = "done" =>
        /\ name_list = PreOrderNames(model)
        /\ \A k \in 1..Len(name_list) : name_list[k] # "Sequential"
        /\ IsXYZTree => name_list = <<LayerType(2), LayerType(5), LayerType(4)>>

C1_Witness ==
    /\ pc = "done"
    /\ IsXYZTree
    /\ name_list = <<"ReLU", "MaxPool2d", "BatchNorm2d">>

\* C2: after a returning extraction the three lists have one length, the
\* number of wrappers reachable through non-wrapper containers; entry i of
\* each list comes from the i-th such wrapper; the name is the type name of
\* the wrapped node, never the wrapper's.
C2_ParallelLists ==
    pc = "done" =>
        /\ Len(name_list) = Cardinality(MeasuredLeaves(model))
        /\ Len(org_bandwidth_list) = Len(name_list)
        /\ Len(compressed_bandwidth_list) = Len(name_list)
        /\ \A w \in MeasuredLeaves(model) :
              LET k == Rank(model, w)
              IN /\ org_bandwidth_list[k] = Rat(model[w].org.bytes, model[w].org.count)
                 /\ compressed_bandwidth_list[k]
                      = Rat(model[w].compressed.bytes, model[w].compressed.count)
                 /\ name_list[k] = model[model[w].org_module].type
                 /\ name_list[k] # model[w].type
        /\ \A w \in Wrappers(model) : model[w].children # <<>>

C2_Witness ==
    /\ pc = "done"
    /\ Len(name_list) >= 3
    /\ Len(org_bandwidth_list) = Len(name_list)
    /\ \E i, j \in 1..Len(org_bandwidth_list) : org_bandwidth_list[i] # org_bandwidth_list[j]

\* C3: on a model whose root has no children the extraction returns
\* normally with three empty lists.
C3_EmptyModel ==
    (Extracted /\ model[1].children = <<>>) =>
        /\ pc = "done"
        /\ error = "none"
        /\ org_bandwidth_list = <<>>
        /\ compressed_bandwidth_list = <<>>
        /\ name_list = <<>>

C3_Witness ==
    /\ pc = "done"
    /\ model[1].children = <<>>
    /\ Extracted
    /\ name_list = <<>>

\* C4: if a visited leaf holds zero samples the extraction raises
\* NoSamplesError; a returned profile has an entry with at least one sample
\* behind it for every leaf.
C4_NoSamples ==
    /\ (Extracted /\ \E w \in MeasuredLeaves(model) : model[w].org.count = 0)
          => (pc = "raised" /\ error = "NoSamplesError")
    /\ pc = "done" =>
          /\ Len(org_bandwidth_list) = Cardinality(MeasuredLeaves(model))
          /\ \A k \in 1..Len(org_bandwidth_list) :
                org_bandwidth_list[k].den > 0 /\ compressed_bandwidth_list[k].den > 0

C4_Witness ==
    /\ pc = "raised"
    /\ error = "NoSamplesError"
    /\ Extracted
    /\ \E w \in MeasuredLeaves(model) : model[w].org.count = 0
    /\ \E w \in MeasuredLeaves(model) : model[w].org.count > 0

\* C5: resume_from_ckpt, with load_state_dict when a checkpoint exists and
\* -init is absent, has completed before the wrapping pass; no parameters
\* are loaded after it.
C5_RestoreBeforeWrap ==
    /\ Before("resume_from_ckpt", "wrap_all_child_modules")
    /\ (ckpt.exists /\ ~args.init) => Before("load_state_dict", "wrap_all_child_modules")
    /\ (Wrapped /\ ckpt.exists /\ ~args.init) => params # "initial"
    /\ \A i, j \in 1..Len(calls) :
          (calls[i] = "wrap_all_child_modules" /\ calls[j] = "load_state_dict") => j < i

C5_Witness ==
    /\ Wrapped
    /\ CountOf("load_state_dict") = 1
    /\ params = "checkpoint"

\* C6: in every execution of run the wrapping pass is invoked exactly once,
\* profiling forward passes follow the wrap, the extraction follows the end
\* of the profiling pass, and no training or validation runs after the wrap.
C6_Claim ==
    /\ Terminated => CountOf("wrap_all_child_modules") = 1
    /\ CountOf("wrap_all_child_modules") <= 1
    /\ Before("wrap_all_child_modules", "forward")
    /\ Before("test_return", "extract_compression_rates")
    /\ \A i, j \in 1..Len(calls) :
          (calls[i] = "wrap_all_child_modules" /\ calls[j] \in {"train", "validate"}) => j < i

\* C7: one wrapping pass replaces every original leaf, in its parent's child
\* mapping, by exactly one wrapper around it; no wrapper wraps a wrapper;
\* containers keep identity, child names and child order.
C7_WrapOnce ==
    Wrapped =>
        /\ \A q \in DOMAIN model0 :
              /\ model[q].wrapper = FALSE
              /\ model[q].type = model0[q].type
              /\ Len(model[q].children) = Len(model0[q].children)
              /\ \A k \in 1..Len(model0[q].children) :
                    LET c0 == model0[q].children[k]
                        c == model[q].children[k]
                    IN /\ c.name = c0.name
                       /\ IF model0[c0.module].children = <<>>
                          THEN /\ c.module \notin DOMAIN model0
                               /\ model[c.module].wrapper
                               /\ model[c.module].org_module = c0.module
                          ELSE c.module = c0.module
        /\ \A l \in DOMAIN model0 \ {1} :
              Cardinality({w \in Wrappers(model) : model[w].org_module = l})
                 = IF model0[l].children = <<>> THEN 1 ELSE 0
        /\ \A w \in Wrappers(model) : ~model[model[w].org_module].wrapper

C7_Witness ==
    /\ pc = "test"
    /\ Wrapped
    /\ Cardinality(Wrappers(model)) = 3
    /\ \E q \in DOMAIN model0 \ {1} : model0[q].children # <<>>

\* C8: for a wrapper with at least one forward call the two averages are the
\* arithmetic means of the input and of the output byte sizes of all its
\* calls, and these are the values the extraction reports for it.
C8_Means ==
    /\ \A w \in Wrappers(model) :
          InputsOf(w) # <<>> =>
             /\ GetAverageOrgBandwidth(model[w]).ok
             /\ GetAverageCompressedBandwidth(model[w]).ok
             /\ RatEq(GetAverageOrgBandwidth(model[w]).val,
                      Rat(SeqSum(InputsOf(w)), Len(InputsOf(w))))
             /\ RatEq(GetAverageCompressedBandwidth(model[w]).val,
                      Rat(SeqSum(OutputsOf(w)), Len(OutputsOf(w))))
    /\ pc = "done" =>
          \A w \in MeasuredLeaves(model) :
             /\ org_bandwidth_list[Rank(model, w)].den > 0
             /\ RatEq(org_bandwidth_list[Rank(model, w)],
                      Rat(SeqSum(InputsOf(w)), Len(InputsOf(w))))
             /\ compressed_bandwidth_list[Rank(model, w)].den > 0
             /\ RatEq(compressed_bandwidth_list[Rank(model, w)],
                      Rat(SeqSum(OutputsOf(w)), Len(OutputsOf(w))))

C8_Witness ==
    /\ pc = "done"
    /\ \E w \in Wrappers(model) :
          /\ InputsOf(w) = <<1000, 2000>>
          /\ OutputsOf(w) = <<250, 500>>
          /\ RatEq(org_bandwidth_list[Rank(model, w)], Rat(1500, 1))
          /\ RatEq(compressed_bandwidth_list[Rank(model, w)], Rat(375, 1))

\* C9: without -evaluate, run trains and validates once per epoch, every
\* validate returning, and then goes on to wrap, profile and extract.
C9_Claim ==
    (~args.evaluate /\ Terminated) =>
        /\ error # "TypeError"
        /\ CountOf("train") = args.epoch
        /\ CountOf("validate") = args.epoch
        /\ Wrapped

\* C10 as stated: for every finite loader test returns the sum of the input
\* batch byte sizes divided by the sum of the label batch sizes.
LoaderBytes == SeqSum([k \in 1..Len(test_loader) |-> test_loader[k].nbytes])

LoaderSamples == SeqSum([k \in 1..Len(test_loader) |-> test_loader[k].n])

C10_Claim ==
    pc # "test" =>
        /\ pc = "plot"
        /\ RatEq(avg_input_bandwidth, Rat(LoaderBytes, LoaderSamples))

\* C10 amended: when the loader supplies at least one sample, test returns
\* the byte total divided by the sample total; when it supplies none, test
\* raises ZeroDivisionError and returns nothing.
C10_Amended ==
    pc # "test" =>
        IF LoaderSamples > 0
        THEN /\ pc = "plot"
             /\ avg_input_bandwidth.den > 0
             /\ RatEq(avg_input_bandwidth, Rat(LoaderBytes, LoaderSamples))
        ELSE /\ pc = "raised"
             /\ error = "ZeroDivisionError"
             /\ avg_input_bandwidth = NoValue

C10_Witness ==
    /\ pc = "plot"
    /\ Len(test_loader) = 3
    /\ \E i, j \in 1..Len(test_loader) : test_loader[i].n # test_loader[j].n
    /\ avg_input_bandwidth.den > 0
    /\ avg_input_bandwidth.num > 0

====
